---- MODULE Spec2Model ----
(***************************************************************************)
(* A model of the interval-node SDK core:                                  *)
(*   - IOClient.renderComponents, its response handler, IOClient.group     *)
(*     and IOClient.onResponse            (src/src/classes/Layout.ts)      *)
(*   - the component object               (src/src/component.ts)           *)
(*   - TransactionLoadingState            (src/src/classes/                *)
(*                                         TransactionLoadingState.ts)     *)
(*   - createIntervalHost and autoTry     (src/unnamed/part_000)           *)
(* JavaScript runs one handler at a time and yields at every await, so an  *)
(* action of the model is the code between two awaits.                     *)
(***************************************************************************)
EXTENDS Integers, Sequences, FiniteSets, TLC

\* Bounds of the model.
MaxCalls == 2        \* renderComponents invocations on the IO client
MaxComps == 2        \* components in one batch
MaxTasks == 1        \* response handlers suspended in an await at one time
MaxSent == 3         \* RENDER packets sent in one behaviour
MaxNotified == 3     \* observer calls counted on the component driven directly
MaxQueue == 2        \* largest itemsInQueue passed to the loading state
MaxCompleted == 3    \* cap of itemsCompleted
MaxLoadingSends == 4 \* cap of transmitted loading states
MaxExecs == 2        \* action executions started by the host
MaxTx == 2           \* transaction ids the coordinator uses
MaxReceived == 1     \* responses delivered to one reply handler
MaxTries == 20       \* invocations of fn by autoTry

\* Values a response can carry for one component.  "null" is JSON null,
\* "bad" is a value the component's schema rejects.
Values == {"null", "a", "bad"}

\* result.inputGroupKey absent (Layout.ts:212 tests its truthiness).
NoKey == 0

VARIABLES
    isCanceled,         \* IOClient.isCanceled
    onResponseHandler,  \* IOClient.onResponseHandler: 0, or the call whose closure it is
    calls,              \* the renderComponents invocations, in call order
    tasks,              \* response handlers suspended in an await
    sent,               \* packets passed to IOClient.send, in order
    uuid,               \* number of input group keys drawn from v4()
    lastEvent,          \* the operation that made the last step
    component,          \* a component driven directly through its methods
    compTasks,          \* its setState calls suspended in await handleStateChange
    compLog,            \* what its callers saw: the accepted return values, the observer calls
    loading,            \* TransactionLoadingState.#state
    loadingSent,        \* number of loading states handed to the sender
    lastLoading,        \* the TransactionLoadingState call that made the last step
    lastComp,           \* the component method that made the last step
    inProgressTransactions, \* createIntervalHost: transactionId -> reply handler (0: no entry)
    executions,         \* the action executions the host started, in start order
    socket,             \* the host's connection: "connecting", "open" or "closed"
    lastHost,           \* the host handler or callback that made the last step
    triesAtStep,        \* autoTry: triesAtStep
    pos,                \* autoTry: pos
    timeout,            \* autoTry: the timer `timeout` refers to
    invocations,        \* autoTry: number of calls of fn so far
    lastDelay,          \* autoTry: the delay of the timer that made the last call of fn
    cancelCalled        \* autoTry: cancel() has been called

ioVars == <<isCanceled, onResponseHandler, calls, tasks, sent, uuid, lastEvent>>
compVars == <<component, compTasks, compLog, lastComp>>
hostVars == <<inProgressTransactions, executions, socket, lastHost>>
retryVars == <<triesAtStep, pos, timeout, invocations, lastDelay, cancelCalled>>
loadingVars == <<loading, loadingSent, lastLoading>>
vars == <<isCanceled, onResponseHandler, calls, tasks, sent, uuid, lastEvent,
          component, compTasks, compLog, loading, loadingSent, lastLoading,
          lastComp, inProgressTransactions, executions, socket, lastHost,
          triesAtStep, pos, timeout, invocations, lastDelay, cancelCalled>>

----------------------------------------------------------------------------
(* The schema registry (ioSchema) and the user-supplied callbacks.         *)

\* schema.returns.parse: throws on a value the schema rejects.
ReturnsParseOk(v) == v # "bad"

\* schema.returns.parse: the canonical value of an accepted value.
ReturnsParse(v) == v

\* schema.state.parse: throws on a value the schema rejects.
StateParseOk(v) == v # "bad"

\* JSON.stringify of a value.
JSONStringify(v) ==
    CASE v = "null" -> "null"
      [] v = "a" -> "\"a\""
      [] OTHER -> "\"bad\""

\* The user's handleStateChange callback: the props for an incoming state.
HandleStateChange(s) ==
    IF s = "a" THEN "results:a" ELSE "results:none"

\* A component's validator (attached with validate): the message for a value,
\* here "required" for null; the index tells the components' messages apart.
ValidatorMessage(index, v) ==
    IF v = "null" THEN (IF index = 1 THEN "m1" ELSE "m2") ELSE "undefined"

\* component.handleValidation: the validator's answer.
HandleValidation(c, index, v) ==
    IF c.validator THEN ValidatorMessage(index, v) ELSE "undefined"

\* The group validator: here it refuses a batch whose values are all equal.
GroupValidator(values) ==
    IF \A i \in 1..Len(values) : values[i] = values[1] THEN "g" ELSE "undefined"

TruthyNever(m) == FALSE

\* JavaScript truthiness of a string | undefined.
Truthy(m) == m \notin {"undefined", ""}

----------------------------------------------------------------------------
(* component.ts                                                            *)

\* component(methodName, label, initialProps, handleStateChange)
NewComponent(validator, handler) ==
    [props |-> "initial", state |-> "null", returnValue |-> "pending",
     onStateChangeHandler |-> 0, validator |-> validator,
     handleStateChange |-> handler]

ResolverOverwrites(cell, parsed) == parsed

\* The resolve function of the returnValue promise: a settled promise
\* ignores further resolve calls.
Resolver(cell, parsed) == IF cell = "pending" THEN parsed ELSE cell

\* setReturnValue(value)
SetReturnValue(c, value) ==
    IF ~ReturnsParseOk(value)
    THEN [threw |-> TRUE, comp |-> c]
    ELSE [threw |-> FALSE,
          comp |-> [c EXCEPT !.returnValue = Resolver(@, ReturnsParse(value))]]

\* setProps(newProps), before the observer is called
SetPropsOf(c, newProps) == [c EXCEPT !.props = newProps]

\* setState(newState) after its await: props from handleStateChange
SetStateProps(c, parsedState) ==
    IF c.handleStateChange THEN [c EXCEPT !.props = HandleStateChange(parsedState)] ELSE c

\* onStateChange(fn)
OnStateChange(c, fn) == [c EXCEPT !.onStateChangeHandler = fn]

----------------------------------------------------------------------------
(* IOClient.renderComponents                                               *)

TransactionClosedNever == FALSE

\* if (this.isCanceled) throw new IOError('TRANSACTION_CLOSED')
TransactionClosed == isCanceled

\* The part of the state the helpers below transform.
World == [isCanceled |-> isCanceled, calls |-> calls, sent |-> sent]

RenderFreshKey(w, call) ==
    [w EXCEPT !.sent = Append(@,
        [kind |-> "RENDER", by |-> call,
         inputGroupKey |-> w.calls[call].inputGroupKey + Len(w.sent),
         validationErrorMessage |-> w.calls[call].validationErrorMessage])]

\* render(): the packet of call's closure, handed to send
Render(w, call) ==
    [w EXCEPT !.sent = Append(@,
        [kind |-> "RENDER", by |-> call,
         inputGroupKey |-> w.calls[call].inputGroupKey,
         validationErrorMessage |-> w.calls[call].validationErrorMessage])]

\* onStateChangeHandler && onStateChangeHandler()
Notify(w, call, index) ==
    LET h == w.calls[call].components[index].onStateChangeHandler
    IN IF h = 0 THEN w ELSE Render(w, h)

\* resolve(response) after await Promise.all(components.map(c => c.returnValue))
Settle(w, call) ==
    LET c == w.calls[call]
    IN IF c.status = "pending"
          /\ \A i \in 1..Len(c.components) : c.components[i].returnValue # "pending"
       THEN [w EXCEPT !.calls[call].status = "resolved",
                      !.calls[call].response =
                          [i \in 1..Len(c.components) |-> c.components[i].returnValue]]
       ELSE w

\* result.values.forEach((v, index) => components[index].setReturnValue(v))
RECURSIVE SetReturnValues(_, _, _)
SetReturnValues(comps, values, i) ==
    IF i > Len(values)
    THEN [threw |-> FALSE, comps |-> comps]
    ELSE LET r == SetReturnValue(comps[i], values[i])
         IN IF r.threw
            THEN [threw |-> TRUE, comps |-> comps]
            ELSE SetReturnValues([comps EXCEPT ![i] = r.comp], values, i + 1)

\* isReturned = true; the forEach; then the outer promise
MarkReturned(w, call, values) ==
    LET r == SetReturnValues(w.calls[call].components, values, 1)
        w1 == [w EXCEPT !.calls[call].isReturned = TRUE,
                        !.calls[call].accepted = values,
                        !.calls[call].components = r.comps]
    IN [w |-> Settle(w1, call), threw |-> r.threw, task |-> <<>>]

\* The SET_STATE loop from entry i up to its next await or its end.
RECURSIVE SetStateLoop(_, _, _, _)
SetStateLoop(w, call, values, i) ==
    IF i > Len(values)
    THEN [w |-> Render(w, call), threw |-> FALSE, task |-> <<>>]
    ELSE LET c == w.calls[call].components[i]
         IN IF JSONStringify(values[i]) = JSONStringify(c.state)
            THEN SetStateLoop(w, call, values, i + 1)
            ELSE IF ~StateParseOk(values[i])
            THEN [w |-> w, threw |-> TRUE, task |-> <<>>]
            ELSE [w |-> IF c.handleStateChange THEN w ELSE Notify(w, call, i),
                  threw |-> FALSE,
                  task |-> <<[call |-> call, kind |-> "SET_STATE", values |-> values,
                              pc |-> "setState", index |-> i]>>]

IsStaleNever(result, call) == FALSE

\* result.inputGroupKey && result.inputGroupKey !== inputGroupKey
IsStale(result, call) ==
    result.inputGroupKey # NoKey /\ result.inputGroupKey # calls[call].inputGroupKey

IsCompleteIgnoresReturned(w, call) == w.isCanceled

\* this.isCanceled || isReturned
IsComplete(w, call) == w.isCanceled \/ w.calls[call].isReturned

\* The handler installed at Layout.ts:211, up to its first await.
Handle(w, call, result) ==
    IF IsStale(result, call) \/ IsComplete(w, call)
    THEN [w |-> w, threw |-> FALSE, task |-> <<>>]
    ELSE IF result.kind = "CANCELED"
    THEN [w |-> [w EXCEPT !.isCanceled = TRUE,
                          !.calls[call].status =
                              IF @ = "pending" THEN "rejected" ELSE @,
                          !.calls[call].error =
                              IF w.calls[call].status = "pending" THEN "CANCELED" ELSE @],
          threw |-> FALSE, task |-> <<>>]
    ELSE IF Len(result.values) # Len(w.calls[call].components)
    THEN [w |-> w, threw |-> TRUE, task |-> <<>>]
    ELSE IF result.kind = "RETURN"
    THEN [w |-> w, threw |-> FALSE,
          task |-> <<[call |-> call, kind |-> "RETURN", values |-> result.values,
                      pc |-> "validating", index |-> 0]>>]
    ELSE SetStateLoop(w, call, result.values, 1)

\* The handler after the await its task is suspended in.
Resume(w, t) ==
    LET comps == w.calls[t.call].components
    IN CASE t.pc = "validating" ->
              IF \E i \in 1..Len(t.values) :
                     HandleValidation(comps[i], i, t.values[i]) # "undefined"
              THEN [w |-> Render(w, t.call), threw |-> FALSE, task |-> <<>>]
              ELSE IF w.calls[t.call].groupValidator
              THEN [w |-> w, threw |-> FALSE,
                    task |-> <<[t EXCEPT !.pc = "groupValidating"]>>]
              ELSE MarkReturned(w, t.call, t.values)
         [] t.pc = "groupValidating" ->
              LET m == GroupValidator(t.values)
                  w1 == [w EXCEPT !.calls[t.call].validationErrorMessage = m]
              IN IF Truthy(m)
                 THEN [w |-> Render(w1, t.call), threw |-> FALSE, task |-> <<>>]
                 ELSE MarkReturned(w1, t.call, t.values)
         [] OTHER ->
              LET w1 == [w EXCEPT !.calls[t.call].components[t.index] =
                                      SetStateProps(@, t.values[t.index])]
                  w2 == IF comps[t.index].handleStateChange
                        THEN Notify(w1, t.call, t.index) ELSE w1
              IN SetStateLoop(w2, t.call, t.values, t.index + 1)

----------------------------------------------------------------------------
(* The inputs of the operations.                                           *)

SeqsUpTo(S, n) == UNION {[1..k -> S] : k \in 0..n}

\* The keys a response can carry: none, or one of the keys of this client
\* (the current one, an earlier one, or one not drawn yet).
Keys == {NoKey} \cup (1..MaxCalls)

\* The responses delivered to the handler of a batch of n components whose
\* key is key: a CANCELED (its values are ignored) with every key; with the
\* batch's key, RETURN and SET_STATE with every value array of length n and
\* one array of each length next to n; with no key, RETURN and SET_STATE
\* with one array of length n and a shorter one; with another key, RETURN
\* and SET_STATE with an array the batch would accept under its own key.
ResponsesFor(n, key) ==
    [inputGroupKey : Keys, kind : {"CANCELED"}, values : {<<>>}]
    \cup [inputGroupKey : {key}, kind : {"RETURN", "SET_STATE"},
          values : [1..n -> Values] \cup {[i \in 1..m |-> "a"] : m \in {n - 1, n + 1}}]
    \cup [inputGroupKey : {NoKey}, kind : {"RETURN", "SET_STATE"},
          values : {[i \in 1..m |-> "a"] : m \in {n - 1, n}}]
    \cup [inputGroupKey : Keys \ {NoKey, key}, kind : {"RETURN", "SET_STATE"},
          values : {[i \in 1..n |-> "a"]}]

\* The io methods a group is built from; io.confirm is makeExclusive(...).
Methods == {"INPUT_TEXT", "CONFIRM"}

\* pi instanceof ExclusiveIOPromise, for the promise an io method returns
IsExclusive(method) == method = "CONFIRM"

\* The components a batch is made of: a validated input, and a search whose
\* props follow its state.
Text == [validator |-> TRUE, handler |-> FALSE]
Search == [validator |-> FALSE, handler |-> TRUE]

\* The batches renderComponents is called with: a single validated input, two
\* validated inputs, and a group of an input and a search with a group validator.
Batches ==
    {[components |-> <<Text>>, groupValidator |-> FALSE],
     [components |-> <<Text, Text>>, groupValidator |-> FALSE],
     [components |-> <<Text, Search>>, groupValidator |-> TRUE]}

\* What lastEvent keeps of an operation: the call it ran for, the key of the
\* response, whether a RETURN or SET_STATE had the wrong number of values,
\* the number of exclusive promises passed to io.group, and whether the
\* operation threw.
Event(op, call, key, lengthFault, exclusive, threw) ==
    [op |-> op, call |-> call, key |-> key, lengthFault |-> lengthFault,
     exclusive |-> exclusive, threw |-> threw]

RemoveAt(s, k) == [i \in 1..(Len(s) - 1) |-> IF i < k THEN s[i] ELSE s[i + 1]]

----------------------------------------------------------------------------
(* Actions of the IO client.                                               *)

\* renderComponents(components, groupValidator)
RenderComponents(cfg, gv) ==
    /\ Len(calls) < MaxCalls
    /\ LET id == Len(calls) + 1
       IN IF TransactionClosed
          THEN /\ calls' = Append(calls,
                       [status |-> "rejected", error |-> "TRANSACTION_CLOSED",
                        inputGroupKey |-> NoKey, isReturned |-> FALSE,
                        validationErrorMessage |-> "undefined", groupValidator |-> gv,
                        components |-> <<>>, response |-> <<>>, accepted |-> <<>>])
               /\ UNCHANGED <<onResponseHandler, sent, uuid>>
          ELSE LET new == [status |-> "pending", error |-> "none",
                           inputGroupKey |-> uuid + 1, isReturned |-> FALSE,
                           validationErrorMessage |-> "undefined", groupValidator |-> gv,
                           components |-> [i \in 1..Len(cfg) |->
                               OnStateChange(NewComponent(cfg[i].validator, cfg[i].handler), id)],
                           response |-> <<>>, accepted |-> <<>>]
                   w == Render([World EXCEPT !.calls = Append(calls, new)], id)
               IN /\ calls' = w.calls
                  /\ sent' = w.sent
                  /\ uuid' = uuid + 1
                  /\ onResponseHandler' = id
    /\ Len(sent') <= MaxSent
    /\ lastEvent' = Event("renderComponents", Len(calls) + 1, NoKey, FALSE, 0,
                          TransactionClosed)
    /\ UNCHANGED <<isCanceled, tasks>>

\* onResponse(result): the handler runs to its first await
OnResponse(result) ==
    /\ onResponseHandler # 0
    /\ LET r == Handle(World, onResponseHandler, result)
       IN /\ Len(r.task) > 0 => Len(tasks) < MaxTasks
          /\ isCanceled' = r.w.isCanceled
          /\ calls' = r.w.calls
          /\ sent' = r.w.sent
          /\ Len(sent') <= MaxSent
          /\ tasks' = tasks \o r.task
          /\ lastEvent' = Event("onResponse", onResponseHandler, result.inputGroupKey,
                                /\ result.kind # "CANCELED"
                                /\ Len(result.values) # Len(calls[onResponseHandler].components),
                                0, r.threw)
    /\ UNCHANGED <<onResponseHandler, uuid>>

\* a suspended handler continues to its next await or its end
ResumeHandler(k) ==
    /\ k \in 1..Len(tasks)
    /\ LET r == Resume(World, tasks[k])
       IN /\ isCanceled' = r.w.isCanceled
          /\ calls' = r.w.calls
          /\ sent' = r.w.sent
          /\ Len(sent') <= MaxSent
          /\ tasks' = RemoveAt(tasks, k) \o r.task
          /\ lastEvent' = Event("resume", tasks[k].call, NoKey, FALSE, 0, r.threw)
    /\ UNCHANGED <<onResponseHandler, uuid>>

GroupThrowsIfAll(promises) == \A i \in 1..Len(promises) : IsExclusive(promises[i])

\* io.group(promises): exclusivePromises.length > 0
GroupThrows(promises) == \E i \in 1..Len(promises) : IsExclusive(promises[i])

\* io.group(promises): throws, or returns a group promise; nothing is rendered
\* before the promise is awaited
Group(promises) ==
    /\ lastEvent' = Event("group", 0, NoKey, FALSE,
                          Cardinality({i \in 1..Len(promises) : promises[i] = "CONFIRM"}),
                          GroupThrows(promises))
    /\ UNCHANGED <<isCanceled, onResponseHandler, calls, tasks, sent, uuid>>

----------------------------------------------------------------------------
(* A component driven directly through the methods component() returns.    *)

\* onStateChangeHandler && onStateChangeHandler(), the observer counted
Notified(c, log) ==
    IF c.onStateChangeHandler = 0 THEN log ELSE [log EXCEPT !.notified = @ + 1]

\* component.onStateChange(fn)
CompOnStateChange(fn) ==
    /\ component' = OnStateChange(component, fn)
    /\ lastComp' = "onStateChange"
    /\ UNCHANGED <<compTasks, compLog>>

\* component.setReturnValue(value)
CompSetReturnValue(value) ==
    LET r == SetReturnValue(component, value)
    IN /\ component' = r.comp
       /\ compLog' = IF r.threw THEN compLog
                     ELSE [compLog EXCEPT !.first = IF @ = "none" THEN value ELSE @,
                                          !.last = value]
       /\ lastComp' = "setReturnValue"
       /\ UNCHANGED compTasks

\* component.setState(newState), up to await handleStateChange
CompSetState(newState) ==
    /\ compLog.notified < MaxNotified
    /\ lastComp' = "setState"
    /\ IF ~StateParseOk(newState)
       THEN UNCHANGED <<component, compTasks, compLog>>
       ELSE IF component.handleStateChange
       THEN /\ Len(compTasks) < MaxTasks
            /\ compTasks' = Append(compTasks, newState)
            /\ UNCHANGED <<component, compLog>>
       ELSE /\ compLog' = Notified(component, compLog)
            /\ UNCHANGED <<component, compTasks>>

\* component.setState(newState), after await handleStateChange
CompSetStateResume(k) ==
    /\ k \in 1..Len(compTasks)
    /\ compLog.notified < MaxNotified
    /\ lastComp' = "setStateResume"
    /\ component' = SetStateProps(component, compTasks[k])
    /\ compLog' = Notified(component, compLog)
    /\ compTasks' = RemoveAt(compTasks, k)

\* component.setProps(newProps)
CompSetProps(newProps) ==
    /\ compLog.notified < MaxNotified
    /\ lastComp' = "setProps"
    /\ component' = SetPropsOf(component, newProps)
    /\ compLog' = Notified(component, compLog)
    /\ UNCHANGED compTasks

----------------------------------------------------------------------------
(* TransactionLoadingState.  An absent field is the empty set, a field      *)
(* holding v is {v}.                                                        *)

\* typeof options === 'string' ? { title: options } : options ?? {}
LoadingOptions ==
    [title : {{}, {"t"}}, itemsInQueue : {{}} \cup {{n} : n \in 0..MaxQueue}]

\* JavaScript truthiness of itemsInQueue
InQueue(state) == state.itemsInQueue \notin {{}, {0}}

\* start: this.#state = { ...options }; itemsCompleted = 0 with itemsInQueue
StartState(options) ==
    LET fresh == [defined |-> TRUE, title |-> options.title,
                  itemsInQueue |-> options.itemsInQueue, itemsCompleted |-> {}]
    IN IF InQueue(fresh) THEN [fresh EXCEPT !.itemsCompleted = {0}] ELSE fresh

UpdateStateResets(state, options) ==
    LET merged == [state EXCEPT
                     !.title = IF options.title = {} THEN @ ELSE options.title,
                     !.itemsInQueue =
                         IF options.itemsInQueue = {} THEN @ ELSE options.itemsInQueue]
    IN IF InQueue(merged) THEN [merged EXCEPT !.itemsCompleted = {0}] ELSE merged

\* update: Object.assign(this.#state, options); itemsCompleted = 0 if undefined
UpdateState(state, options) ==
    LET merged == [state EXCEPT
                     !.title = IF options.title = {} THEN @ ELSE options.title,
                     !.itemsInQueue =
                         IF options.itemsInQueue = {} THEN @ ELSE options.itemsInQueue]
    IN IF InQueue(merged) /\ merged.itemsCompleted = {}
       THEN [merged EXCEPT !.itemsCompleted = {0}]
       ELSE merged

CompleteOneStateTwice(state) ==
    LET n == IF state.itemsCompleted = {} THEN 0 ELSE CHOOSE x \in state.itemsCompleted : TRUE
    IN [state EXCEPT !.itemsCompleted = {n + 2}]

\* completeOne: itemsCompleted++ (0 first if undefined)
CompleteOneState(state) ==
    LET n == IF state.itemsCompleted = {} THEN 0 ELSE CHOOSE x \in state.itemsCompleted : TRUE
    IN [state EXCEPT !.itemsCompleted = {n + 1}]

\* loading.start(options)
Start(options) ==
    /\ loadingSent < MaxLoadingSends
    /\ loading' = StartState(options)
    /\ loadingSent' = loadingSent + 1
    /\ lastLoading' = "start"

\* loading.update(options): start(options) when start was never called
Update(options) ==
    /\ loadingSent < MaxLoadingSends
    /\ loading' = IF ~loading.defined THEN StartState(options)
                  ELSE UpdateState(loading, options)
    /\ loadingSent' = loadingSent + 1
    /\ lastLoading' = "update"

\* loading.completeOne()
CompleteOne ==
    /\ lastLoading' = "completeOne"
    /\ IF ~loading.defined \/ ~InQueue(loading)
       THEN UNCHANGED <<loading, loadingSent>>
       ELSE /\ loadingSent < MaxLoadingSends
            /\ loading.itemsCompleted \subseteq 0..(MaxCompleted - 1)
            /\ loading' = CompleteOneState(loading)
            /\ loadingSent' = loadingSent + 1

----------------------------------------------------------------------------
(* createIntervalHost: the transaction table and the two handlers of the   *)
(* host's RPC client.  An execution is one call fn(io.client).             *)

\* transactionId values the coordinator sends
TxIds == 1..MaxTx

\* actionName values the coordinator sends; config.actions holds the first
ActionNames == {"action", "unknown"}

\* config.actions[inputs.actionName] is defined
HasAction(actionName) == actionName = "action"

\* What an action can reject with.
Errors == {"CANCELED", "TRANSACTION_CLOSED", "ERROR"}

\* What lastHost keeps of a step: the handler, its transactionId and the
\* execution it started, delivered to or continued (0: none).
HostEvent(op, transactionId, exec) ==
    [op |-> op, transactionId |-> transactionId, exec |-> exec]

ReplyHandlerOfFirst(transactionId) == inProgressTransactions[1]

\* inProgressTransactions.get(inputs.transactionId)
ReplyHandlerOf(transactionId) == inProgressTransactions[transactionId]

ThenFiresOnSettle(e) == e.status # "running"

\* fn(io.client).then(onFulfilled): the callback is queued by a resolution only
ThenFires(e) == e.status = "resolved"

\* ws.connect() resolves; the RPC client with the two handlers is created
SetupConnects ==
    /\ socket = "connecting"
    /\ socket' = "open"
    /\ lastHost' = HostEvent("connect", 0, 0)
    /\ UNCHANGED <<inProgressTransactions, executions>>

\* ws.on('close', ...): the handler logs and returns
SocketCloses ==
    /\ socket # "closed"
    /\ socket' = "closed"
    /\ lastHost' = HostEvent("close", 0, 0)
    /\ UNCHANGED <<inProgressTransactions, executions>>

\* handlers.START_TRANSACTION(inputs)
StartTransaction(transactionId, actionName) ==
    /\ socket = "open"
    /\ IF ~HasAction(actionName)
       THEN /\ lastHost' = HostEvent("START_TRANSACTION", transactionId, 0)
            /\ UNCHANGED <<inProgressTransactions, executions>>
       ELSE /\ Len(executions) < MaxExecs
            /\ executions' = Append(executions,
                   [transactionId |-> transactionId, status |-> "running",
                    error |-> "none", received |-> 0, thenRan |-> FALSE, marks |-> 0])
            /\ inProgressTransactions' =
                   [inProgressTransactions EXCEPT ![transactionId] = Len(executions) + 1]
            /\ lastHost' = HostEvent("START_TRANSACTION", transactionId, Len(executions) + 1)
    /\ UNCHANGED socket

\* handlers.IO_RESPONSE(inputs)
IoResponse(transactionId) ==
    /\ socket = "open"
    /\ LET replyHandler == ReplyHandlerOf(transactionId)
       IN IF replyHandler = 0
          THEN UNCHANGED executions
          ELSE /\ executions[replyHandler].received < MaxReceived
               /\ executions' = [executions EXCEPT ![replyHandler].received = @ + 1]
    /\ lastHost' = HostEvent("IO_RESPONSE", transactionId, ReplyHandlerOf(transactionId))
    /\ UNCHANGED <<inProgressTransactions, socket>>

\* the promise fn(io.client) returned settles
ActionSettles(exec, outcome) ==
    /\ exec \in 1..Len(executions)
    /\ executions[exec].status = "running"
    /\ executions' = [executions EXCEPT
           ![exec].status = IF outcome = "ok" THEN "resolved" ELSE "rejected",
           ![exec].error = IF outcome = "ok" THEN "none" ELSE outcome]
    /\ lastHost' = HostEvent("settle", executions[exec].transactionId, exec)
    /\ UNCHANGED <<inProgressTransactions, socket>>

\* the callback passed to then: serverRpc('MARK_TRANSACTION_COMPLETE', ...)
ThenCallback(exec) ==
    /\ exec \in 1..Len(executions)
    /\ ThenFires(executions[exec])
    /\ ~executions[exec].thenRan
    /\ executions' = [executions EXCEPT ![exec].thenRan = TRUE, ![exec].marks = @ + 1]
    /\ lastHost' = HostEvent("MARK_TRANSACTION_COMPLETE", executions[exec].transactionId, exec)
    /\ UNCHANGED <<inProgressTransactions, socket>>

----------------------------------------------------------------------------
(* autoTry(fn)                                                             *)

\* const steps = [1000, 3000, 10000], indexed from 0
Steps(p) == CASE p = 0 -> 1000 [] p = 1 -> 3000 [] OTHER -> 10000

\* What a call of fn does besides failing: nothing more, call cancel(), or
\* throw instead of returning.
FnBehaviours == {"fails", "cancels", "throws"}

AdvanceAtFive(tries) == tries >= 5

\* if (triesAtStep > 5)
Advance(tries) == tries > 5

\* pos = pos >= 2 ? 0 : pos + 1
NextPos(p) == IF p >= 2 THEN 0 ELSE p + 1

\* the setTimeout callback of tick: fn(), the counters, tick()
TimerFires(behaviour) ==
    /\ timeout = "pending"
    /\ invocations < MaxTries
    /\ invocations' = invocations + 1
    /\ lastDelay' = Steps(pos)
    /\ IF behaviour = "throws"
       THEN /\ timeout' = "fired"
            /\ UNCHANGED <<triesAtStep, pos, cancelCalled>>
       ELSE /\ cancelCalled' = (cancelCalled \/ behaviour = "cancels")
            /\ triesAtStep' = IF Advance(triesAtStep + 1) THEN 0 ELSE triesAtStep + 1
            /\ pos' = IF Advance(triesAtStep + 1) THEN NextPos(pos) ELSE pos
            /\ timeout' = "pending"

\* cancel(), called between two timer callbacks
Cancel ==
    /\ timeout' = IF timeout = "pending" THEN "cleared" ELSE timeout
    /\ cancelCalled' = TRUE
    /\ UNCHANGED <<triesAtStep, pos, invocations, lastDelay>>

----------------------------------------------------------------------------
(* Specifications.                                                         *)

IOInit ==
    /\ isCanceled = FALSE
    /\ onResponseHandler = 0
    /\ calls = <<>>
    /\ tasks = <<>>
    /\ sent = <<>>
    /\ uuid = 0
    /\ lastEvent = Event("init", 0, NoKey, FALSE, 0, FALSE)

ComponentInit ==
    /\ component = NewComponent(FALSE, TRUE)
    /\ compTasks = <<>>
    /\ compLog = [first |-> "none", last |-> "none", notified |-> 0]
    /\ lastComp = "init"

LoadingInit ==
    /\ loading = [defined |-> FALSE, title |-> {}, itemsInQueue |-> {}, itemsCompleted |-> {}]
    /\ loadingSent = 0
    /\ lastLoading = "init"

\* createIntervalHost(config) has returned; setup() is waiting in ws.connect()
HostInit ==
    /\ inProgressTransactions = [t \in TxIds |-> 0]
    /\ executions = <<>>
    /\ socket = "connecting"
    /\ lastHost = HostEvent("init", 0, 0)

\* autoTry has not been called
RetryIdle ==
    /\ triesAtStep = 0
    /\ pos = 0
    /\ timeout = "null"
    /\ invocations = 0
    /\ lastDelay = 0
    /\ cancelCalled = FALSE

Init == IOInit /\ ComponentInit /\ LoadingInit /\ HostInit /\ RetryIdle

\* The IO client of one transaction.
Next ==
    \/ \E b \in Batches :
          RenderComponents(b.components, b.groupValidator)
          /\ UNCHANGED <<compVars, loadingVars, hostVars, retryVars>>
    \/ \E result \in ResponsesFor(
                        IF onResponseHandler = 0 THEN 1
                        ELSE Len(calls[onResponseHandler].components),
                        IF onResponseHandler = 0 THEN NoKey
                        ELSE calls[onResponseHandler].inputGroupKey) :
          OnResponse(result) /\ UNCHANGED <<compVars, loadingVars, hostVars, retryVars>>
    \/ \E k \in 1..MaxTasks :
          ResumeHandler(k) /\ UNCHANGED <<compVars, loadingVars, hostVars, retryVars>>
    \/ \E ps \in SeqsUpTo(Methods, MaxComps) \ {<<>>} :
          Group(ps) /\ UNCHANGED <<compVars, loadingVars, hostVars, retryVars>>

Spec == Init /\ [][Next]_vars

\* One component, with or without a handleStateChange callback.
InitComponent ==
    /\ IOInit
    /\ LoadingInit
    /\ component \in {NewComponent(FALSE, h) : h \in BOOLEAN}
    /\ compTasks = <<>>
    /\ compLog = [first |-> "none", last |-> "none", notified |-> 0]
    /\ lastComp = "init"
    /\ HostInit
    /\ RetryIdle

NextComponent ==
    \/ \E fn \in 0..MaxCalls : CompOnStateChange(fn) /\ UNCHANGED <<ioVars, loadingVars, hostVars, retryVars>>
    \/ \E v \in Values : CompSetReturnValue(v) /\ UNCHANGED <<ioVars, loadingVars, hostVars, retryVars>>
    \/ \E s \in Values : CompSetState(s) /\ UNCHANGED <<ioVars, loadingVars, hostVars, retryVars>>
    \/ \E k \in 1..MaxTasks : CompSetStateResume(k) /\ UNCHANGED <<ioVars, loadingVars, hostVars, retryVars>>
    \/ CompSetProps("set") /\ UNCHANGED <<ioVars, loadingVars, hostVars, retryVars>>

SpecComponent == InitComponent /\ [][NextComponent]_vars

NextLoading ==
    \/ \E o \in LoadingOptions : Start(o) /\ UNCHANGED <<ioVars, compVars, hostVars, retryVars>>
    \/ \E o \in LoadingOptions : Update(o) /\ UNCHANGED <<ioVars, compVars, hostVars, retryVars>>
    \/ CompleteOne /\ UNCHANGED <<ioVars, compVars, hostVars, retryVars>>

SpecLoading == Init /\ [][NextLoading]_vars

\* The host: its socket, the messages of the coordinator, the actions it runs.
NextHost ==
    \/ SetupConnects /\ UNCHANGED <<ioVars, compVars, loadingVars, retryVars>>
    \/ SocketCloses /\ UNCHANGED <<ioVars, compVars, loadingVars, retryVars>>
    \/ \E t \in TxIds, a \in ActionNames :
          StartTransaction(t, a) /\ UNCHANGED <<ioVars, compVars, loadingVars, retryVars>>
    \/ \E t \in TxIds :
          IoResponse(t) /\ UNCHANGED <<ioVars, compVars, loadingVars, retryVars>>
    \/ \E e \in 1..MaxExecs, o \in {"ok"} \cup Errors :
          ActionSettles(e, o) /\ UNCHANGED <<ioVars, compVars, loadingVars, retryVars>>
    \/ \E e \in 1..MaxExecs :
          ThenCallback(e) /\ UNCHANGED <<ioVars, compVars, loadingVars, retryVars>>

SpecHost == Init /\ [][NextHost]_vars

\* autoTry(fn) has returned: tick() has armed the first timer
InitAutoTry ==
    /\ IOInit
    /\ ComponentInit
    /\ LoadingInit
    /\ HostInit
    /\ triesAtStep = 0
    /\ pos = 0
    /\ timeout = "pending"
    /\ invocations = 0
    /\ lastDelay = 0
    /\ cancelCalled = FALSE

NextAutoTry ==
    \/ \E b \in FnBehaviours :
          TimerFires(b) /\ UNCHANGED <<ioVars, compVars, loadingVars, hostVars>>
    \/ Cancel /\ UNCHANGED <<ioVars, compVars, loadingVars, hostVars>>

SpecAutoTry == InitAutoTry /\ [][NextAutoTry]_vars

----------------------------------------------------------------------------
(* Properties.                                                             *)

Handler == calls[onResponseHandler]

\* The last response carried no key or the key of the handler's batch.
LiveKey == lastEvent.key \in {NoKey, Handler.inputGroupKey}

\* C1 (cancel sticky): once isCanceled is set it stays set, and every
\* renderComponents call made from then on is rejected with
\* TRANSACTION_CLOSED and sends no RENDER packet.
CancelSticky ==
    [][isCanceled =>
         /\ isCanceled'
         /\ lastEvent'.op = "renderComponents" =>
              /\ Len(calls') = Len(calls) + 1
              /\ calls'[Len(calls')].status = "rejected"
              /\ calls'[Len(calls')].error = "TRANSACTION_CLOSED"
              /\ sent' = sent]_vars

\* A CANCELED was accepted by one call and a later call was made.
CancelStickyWitness ==
    /\ isCanceled
    /\ \E c \in 1..Len(calls) : calls[c].error = "CANCELED"
    /\ lastEvent.op = "renderComponents"
    /\ calls[Len(calls)].error = "TRANSACTION_CLOSED"

\* C2 (stale key isolation): handling a response whose key is present and is
\* not the key of the handler's batch changes nothing of the render loops: not
\* isCanceled, not a call (its returned flag, its validation message, its
\* components, its promise), not a suspended handler, and no packet is sent.
StaleKeyIsolation ==
    [][(/\ lastEvent'.op = "onResponse"
        /\ onResponseHandler # 0
        /\ lastEvent'.key \notin {NoKey, Handler.inputGroupKey})
       => UNCHANGED <<isCanceled, onResponseHandler, calls, tasks, sent, uuid>>]_vars

\* A response with another key was handled by a batch that is still open.
StaleKeyWitness ==
    /\ lastEvent.op = "onResponse"
    /\ ~LiveKey
    /\ ~isCanceled
    /\ ~Handler.isReturned
    /\ Handler.status = "pending"

\* The message of the first component whose validator refuses its value.
FirstValidatorMessage(t) ==
    LET comps == calls[t.call].components
        refused == {i \in 1..Len(t.values) :
                       HandleValidation(comps[i], i, t.values[i]) # "undefined"}
    IN IF refused = {} THEN "undefined"
       ELSE LET i == CHOOSE j \in refused : \A l \in refused : j <= l
            IN HandleValidation(comps[i], i, t.values[i])

\* C3 (validation retry): when the handler of a RETURN finds a component
\* validator refusing a value, the packet it sends next carries that first
\* message as validationErrorMessage, under the batch's key.
ValidationRetry ==
    [][\A k \in 1..Len(tasks) :
         (/\ lastEvent'.op = "resume"
          /\ tasks[k].pc = "validating"
          /\ tasks' = RemoveAt(tasks, k)
          /\ FirstValidatorMessage(tasks[k]) # "undefined")
         => /\ Len(sent') = Len(sent) + 1
            /\ sent'[Len(sent')].inputGroupKey = calls[tasks[k].call].inputGroupKey
            /\ sent'[Len(sent')].validationErrorMessage = FirstValidatorMessage(tasks[k])]_vars

\* C4 (single resolve): the return value of a component is unset until the
\* first setReturnValue call that passes the schema, and from then on it is
\* the value of that call, whatever is passed to later calls.
SingleResolve ==
    /\ compLog.first = "none" <=> component.returnValue = "pending"
    /\ compLog.first # "none" => component.returnValue = compLog.first

\* setReturnValue passed the schema at least twice, with different values.
SingleResolveWitness ==
    /\ compLog.first # "none"
    /\ compLog.last # compLog.first

\* C5 (late responses): a response handled after its batch was marked
\* returned is dropped: no component changes, isCanceled is not set, no
\* handler is started and no packet is sent.
LateResponseDropped ==
    [][(/\ lastEvent'.op = "onResponse"
        /\ onResponseHandler # 0
        /\ Handler.isReturned)
       => UNCHANGED <<isCanceled, onResponseHandler, calls, tasks, sent, uuid>>]_vars

\* A response with the batch's key (or none) was handled after the batch
\* returned and its call resolved.
LateResponseWitness ==
    /\ lastEvent.op = "onResponse"
    /\ LiveKey
    /\ Handler.isReturned
    /\ Handler.status = "resolved"

\* C6 (protocol mismatch): after a RETURN or SET_STATE with the batch's key
\* (or none) and the wrong number of values was handled by an open batch,
\* the renderComponents call is rejected.
ProtocolMismatchRejects ==
    (/\ lastEvent.op = "onResponse"
     /\ lastEvent.lengthFault
     /\ LiveKey
     /\ ~isCanceled
     /\ ~Handler.isReturned)
    => Handler.status = "rejected"

\* C7 (input group key scoping): two packets carry the same inputGroupKey
\* exactly when the same renderComponents call sent them.
KeyScoping ==
    \A i, j \in 1..Len(sent) :
        sent[i].by = sent[j].by <=> sent[i].inputGroupKey = sent[j].inputGroupKey

\* One call has rendered twice and another call has rendered too.
KeyScopingWitness ==
    \E i, j, k \in 1..Len(sent) :
        /\ i < j
        /\ sent[i].by = sent[j].by
        /\ sent[k].by # sent[i].by

\* C8 (order preservation): a batch marked returned by a RETURN with values
\* [v0..vn] has given vi to component i, for every i, and its call has
\* resolved with [v0..vn].
OrderPreserved ==
    \A c \in 1..Len(calls) :
        calls[c].isReturned =>
            /\ \A i \in 1..Len(calls[c].components) :
                   calls[c].components[i].returnValue = calls[c].accepted[i]
            /\ calls[c].status = "resolved"
            /\ calls[c].response = calls[c].accepted

\* C9 (group exclusion): io.group called with at least one exclusive promise
\* throws (it returns no group promise), and nothing is sent or started.
GroupExclusion ==
    [][(lastEvent'.op = "group" /\ lastEvent'.exclusive > 0)
       => /\ lastEvent'.threw
          /\ UNCHANGED <<isCanceled, onResponseHandler, calls, tasks, sent, uuid>>]_vars

\* io.group was called with an exclusive promise and threw.
GroupExclusionWitness ==
    /\ lastEvent.op = "group"
    /\ lastEvent.exclusive > 0
    /\ lastEvent.threw

\* itemsCompleted is not lowered and does not go back to undefined.
NotLowered(old, new) ==
    old = {} \/ (new # {} /\ \A a \in old, b \in new : a <= b)

CompletedCount(state) ==
    IF state.itemsCompleted = {} THEN 0 ELSE CHOOSE x \in state.itemsCompleted : TRUE

MarkOnlyAfterResolve ==
    \A e \in 1..Len(executions) :
        /\ executions[e].marks <= 1
        /\ executions[e].marks = 1 => executions[e].status = "resolved"
        /\ executions[e].status = "rejected" => executions[e].marks = 0

\* one action resolved and was marked complete, another was rejected by CANCELED
MarkOnlyAfterResolveWitness ==
    /\ Len(executions) = 2
    /\ executions[1].status = "resolved" /\ executions[1].marks = 1
    /\ executions[2].status = "rejected" /\ executions[2].error = "CANCELED"

\* C13 (transaction table cleanup): once MARK_TRANSACTION_COMPLETE has been
\* emitted for an execution's transactionId, the table holds no entry for
\* that transactionId.
TableCleanedAfterMark ==
    \A e \in 1..Len(executions) :
        executions[e].marks > 0 =>
            inProgressTransactions[executions[e].transactionId] = 0

\* C14 (one live transaction per transactionId): for each transactionId at
\* most one action execution is running.
OneLivePerTxId ==
    \A t \in TxIds :
        Cardinality({e \in 1..Len(executions) :
                        /\ executions[e].transactionId = t
                        /\ executions[e].status = "running"}) <= 1

\* C15 (demultiplexing): an IO_RESPONSE carrying transactionId A changes
\* nothing but the execution whose reply handler is registered for A, which
\* belongs to a transaction with id A and receives exactly this response;
\* with no handler registered for A nothing changes.
Demultiplexed ==
    [][lastHost'.op = "IO_RESPONSE" =>
         LET a == lastHost'.transactionId
             h == inProgressTransactions[a]
         IN /\ inProgressTransactions' = inProgressTransactions
            /\ Len(executions') = Len(executions)
            /\ \A e \in 1..Len(executions) :
                   IF e = h
                   THEN \/ executions'[e] = executions[e]
                        \/ /\ executions[e].transactionId = a
                           /\ executions'[e] = [executions[e] EXCEPT !.received = @ + 1]
                   ELSE executions'[e] = executions[e]]_vars

\* two transactions are running and a response was delivered to the second
\* one only
DemultiplexedWitness ==
    /\ lastHost.op = "IO_RESPONSE"
    /\ Len(executions) = 2
    /\ executions[1].transactionId # executions[2].transactionId
    /\ executions[1].status = "running" /\ executions[1].received = 0
    /\ executions[2].status = "running" /\ executions[2].received = 1
    /\ lastHost.exec = 2

\* The schedule continued beyond the 24th call: six calls per step, cyclic.
Schedule6(n) ==
    LET step == ((n - 1) \div 6) % 3
    IN IF step = 0 THEN 1000 ELSE IF step = 1 THEN 3000 ELSE 10000

\* The delay the schedule [1s x 6, 3s x 6, 10s x 6, 1s ...] gives the n-th call.
Schedule(n) ==
    IF n <= 6 THEN 1000
    ELSE IF n <= 12 THEN 3000
    ELSE IF n <= 18 THEN 10000
    ELSE IF n <= 24 THEN 1000
    ELSE Schedule6(n)

\* C16 (backoff schedule): the n-th invocation of fn follows a delay of 1s
\* for n = 1..6, 3s for n = 7..12, 10s for n = 13..18 and 1s for n = 19, 20.
BackoffSchedule ==
    invocations >= 1 => lastDelay = Schedule(invocations)

\* the 19th invocation, the first after the wrap
BackoffScheduleWitness ==
    /\ invocations = 19
    /\ lastDelay = 1000
    /\ pos = 0
    /\ ~cancelCalled

\* C17 (reconnect on close): the step in which the socket's close event is
\* handled leaves a reconnect timer of the backoff schedule armed.
ReconnectScheduledOnClose ==
    [][lastHost'.op = "close" => timeout' = "pending"]_vars

\* C18 (group validator retry): when the handler of a RETURN whose values
\* passed every component's validator gets a non-empty message m from the
\* group validator, the batch is not marked returned, no component's return
\* value is set, and the RENDER packet sent next carries m under the batch's
\* inputGroupKey.
GroupValidatorRetry ==
    [][\A k \in 1..Len(tasks) :
         LET t == tasks[k]
             c == t.call
             m == GroupValidator(t.values)
         IN (/\ lastEvent'.op = "resume"
             /\ lastEvent'.call = c
             /\ t.pc = "groupValidating"
             /\ tasks' = RemoveAt(tasks, k)
             /\ m \notin {"undefined", ""})
            => /\ calls'[c].isReturned = calls[c].isReturned
               /\ \A i \in 1..Len(calls[c].components) :
                      calls'[c].components[i].returnValue =
                          calls[c].components[i].returnValue
               /\ calls'[c].status = calls[c].status
               /\ sent' = Append(sent,
                      [kind |-> "RENDER", by |-> c,
                       inputGroupKey |-> calls[c].inputGroupKey,
                       validationErrorMessage |-> m])]_vars

\* the group validator's message has been rendered while the batch waits on
GroupValidatorRetryWitness ==
    /\ lastEvent.op = "resume"
    /\ Len(sent) = 2
    /\ sent[2].validationErrorMessage = "g"
    /\ sent[2].inputGroupKey = sent[1].inputGroupKey
    /\ ~calls[1].isReturned
    /\ calls[1].status = "pending"

\* C19 (SET_STATE reconciliation): setState is invoked on a component only
\* when the incoming state differs from the state most recently set on it;
\* so a component whose last state was "a" (its props are the ones its state
\* handler gave for "a") is not handed "a" again by the next SET_STATE.
SetStateOnlyOnChange ==
    [][(/\ tasks = <<>>
        /\ Len(tasks') = 1
        /\ tasks'[1].pc = "setState")
       => LET t == tasks'[1]
          IN ~(/\ calls[t.call].components[t.index].props = "results:a"
               /\ JSONStringify(t.values[t.index]) = JSONStringify("a"))]_vars

\* C20 (frozen after return): a setState call made on a component whose
\* return value has been set changes neither its props nor its state and
\* does not call the observer.
FrozenAfterReturn ==
    [][(component.returnValue # "pending" /\ lastComp' = "setState")
       => /\ component'.props = component.props
          /\ component'.state = component.state
          /\ compLog'.notified = compLog.notified]_vars

\* C21 (one render loop at a time): every renderComponents invocation that
\* is still unsettled is the one the client's response handler belongs to,
\* so no unsettled invocation has lost its handler to a later one.
OneRenderLoop ==
    \A c \in 1..Len(calls) :
        calls[c].status = "pending" => onResponseHandler = c

\* C22 (no render after settlement): no step sends a RENDER packet for a
\* batch that was already marked returned, or for any batch of a client that
\* was already canceled.
NoRenderAfterSettlement ==
    [][\A i \in (Len(sent) + 1)..Len(sent') :
           sent'[i].by \in 1..Len(calls) =>
               /\ ~isCanceled
               /\ ~calls[sent'[i].by].isReturned]_vars

\* C23 (cancel and return are mutually exclusive): a batch whose render was
\* rejected with CANCELED is not marked returned and none of its components
\* has a return value.
CancelExcludesReturn ==
    \A c \in 1..Len(calls) :
        calls[c].error = "CANCELED" =>
            /\ ~calls[c].isReturned
            /\ \A i \in 1..Len(calls[c].components) :
                   calls[c].components[i].returnValue = "pending"

\* C24 (returned batches resolve): a batch marked returned has the return
\* value of every component set and its renderComponents call is not left
\* pending.
ReturnedBatchesResolve ==
    \A c \in 1..Len(calls) :
        calls[c].isReturned =>
            /\ \A i \in 1..Len(calls[c].components) :
                   calls[c].components[i].returnValue # "pending"
            /\ calls[c].status # "pending"

\* C25 (backoff cancel): once cancel() has been called, fn is not invoked
\* again and no timer is left armed, whether cancel() was called between two
\* invocations or from inside one.
CancelStopsRetries ==
    [][/\ cancelCalled => invocations' = invocations
       /\ cancelCalled' => timeout' # "pending"]_vars

====
